---- MODULE Spec2Model ----
(***************************************************************************)
(* Resource booking system: the bookings REST handlers (registerRoutes),   *)
(* the storage layer (DatabaseStorage) and its conflict query              *)
(* checkBookingConflict.                                                   *)
(*                                                                         *)
(* The repository holds two versions of the storage module:                *)
(*   src/server/storage.ts   ("server")                                    *)
(*   src/unnamed/part_001    ("unnamed")                                   *)
(* The route handlers import { storage } from "./storage"; storageModule   *)
(* records which of the two the build binds, and never changes.            *)
(*                                                                         *)
(* Instants are integers 0..MaxTime (Date values compare by their time     *)
(* value).  A bookings row keeps the three columns the handlers read:      *)
(* resourceId, startTime, endTime.  A partial update body (Partial of      *)
(* InsertBooking) is a record whose DOMAIN is the set of time/resource     *)
(* fields it supplies; the empty record is a body with bookedBy and/or     *)
(* purpose only.                                                           *)
(***************************************************************************)
EXTENDS Integers, FiniteSets, TLC

VARIABLES
    storageModule,   \* "server" | "unnamed": the storage module bound to ./storage
    resources,       \* table resources: id -> [isAvailable]
    nextResourceId,  \* the serial sequence of resources.id
    bookings,        \* table bookings: id -> [resourceId, startTime, endTime]
    nextBookingId,   \* the serial sequence of bookings.id
    last,            \* the last HTTP exchange: [op, status, given]
    served,          \* how many requests have been answered
    call,            \* the last direct call of checkBookingConflict, with its results
    reqs,            \* requests being handled concurrently: handler -> record
    now,             \* the browser's clock when a page is rendered
    dash,            \* what the dashboard page last rendered
    route,           \* the browser's location, matched by the Switch of App.tsx
    createBookingModalOpen,  \* Router's state of that name
    modal,           \* the mounted CreateBookingModal instance, if any
    pending,         \* create requests sent by the modal and not yet answered
    sent,            \* how many create requests the modal has sent
    answered,        \* the answered create requests, with their outcome
    initialized,     \* api/index.ts: let initialized
    registerRoutesCalls,  \* how many times registerRoutes(app) has been called
    invocations      \* invocations of the serverless handler: id -> record

entryVars == <<initialized, registerRoutesCalls, invocations>>

serverVars == <<entryVars, storageModule, resources, nextResourceId, bookings,
                nextBookingId, last, served, call, reqs>>

clientVars == <<now, dash, route, createBookingModalOpen, modal, pending, sent, answered>>

vars == <<clientVars, entryVars, storageModule, resources, nextResourceId, bookings, nextBookingId,
          last, served, call, reqs>>

\* ---------------------------------------------------------------- bounds
MaxTime == 3
MaxRequests == 3
MaxRows == 2

Times == 0..MaxTime
\* Resources 1 and 2 are stored; 3 names no stored resource.
StoredResourceIds == {1, 2}
RequestResourceIds == {1, 2, 3}
StorageModules == {"server", "unnamed"}
Fields == {"resourceId", "startTime", "endTime"}
\* Row ids of the tables on which checkBookingConflict is called directly.
RowIds == 1..MaxRows
\* Two requests in flight at a time.
Handlers == {"h1", "h2"}

\* ------------------------------------------------------------ data model
Row(r, s, e) == [resourceId |-> r, startTime |-> s, endTime |-> e]

\* Rows that the handlers can have stored: an existing resource, end after start.
ValidRows == {x \in [resourceId : StoredResourceIds, startTime : Times, endTime : Times] :
                 x.endTime > x.startTime}

\* JavaScript truthiness of an optional number: undefined and 0 are falsy.
\* An absent excludeBookingId is passed as 0.
Truthy(n) == n # 0

\* ------------------------------------------------- storage: conflict query
\* Mutant of OverlapCases: the third case (the new booking encompasses the
\* existing one) is missing.
OverlapCasesNoEncompass(row, startTime, endTime) ==
    \/ (row.startTime <= startTime /\ row.endTime >= startTime)
    \/ (row.startTime <= endTime /\ row.endTime >= endTime)

\* src/unnamed/part_001, the or(...) of three cases, against one row.
OverlapCases(row, startTime, endTime) ==
    \/ (row.startTime <= startTime /\ row.endTime >= startTime)
    \/ (row.startTime <= endTime /\ row.endTime >= endTime)
    \/ (row.startTime >= startTime /\ row.endTime <= endTime)

\* Mutant of OverlapCasesServer: the first case ends with "<", so a candidate
\* that starts at the row's end matches no case.
OverlapCasesServerHalfOpen(row, startTime, endTime) ==
    \/ (startTime >= row.startTime /\ startTime < row.endTime)
    \/ (endTime >= row.startTime /\ endTime <= row.endTime)
    \/ (startTime <= row.startTime /\ endTime >= row.endTime)

\* src/server/storage.ts, the or(...) of three cases, against one row.
OverlapCasesServer(row, startTime, endTime) ==
    \/ (startTime >= row.startTime /\ startTime <= row.endTime)
    \/ (endTime >= row.startTime /\ endTime <= row.endTime)
    \/ (startTime <= row.startTime /\ endTime >= row.endTime)

\* Mutant of checkBookingConflict: eq(bookings.resourceId, resourceId) is missing.
checkBookingConflictAnyResource(rows, resourceId, startTime, endTime, excludeBookingId) ==
    \E id \in DOMAIN rows :
        /\ OverlapCases(rows[id], startTime, endTime)
        /\ (Truthy(excludeBookingId) => ~(id = excludeBookingId))

\* src/unnamed/part_001: rows of the resource that match a case and, when an
\* excludeBookingId is given, whose id is not it.
checkBookingConflict(rows, resourceId, startTime, endTime, excludeBookingId) ==
    \E id \in DOMAIN rows :
        /\ rows[id].resourceId = resourceId
        /\ OverlapCases(rows[id], startTime, endTime)
        /\ (Truthy(excludeBookingId) => ~(id = excludeBookingId))

\* Mutant of checkBookingConflictServer: "conflicts.length >= 0" for "> 0".
checkBookingConflictServerGeq(rows, resourceId, startTime, endTime, excludeBookingId) ==
    Cardinality({id \in DOMAIN rows :
        /\ rows[id].resourceId = resourceId
        /\ OverlapCasesServer(rows[id], startTime, endTime)
        /\ (Truthy(excludeBookingId) => id = excludeBookingId)}) >= 0

\* src/server/storage.ts: the same selection, but with an excludeBookingId the
\* where clause is conjoined with eq(bookings.id, excludeBookingId), read as the
\* conjunction the statement writes: query.where(and(query.where, eq(...))).
checkBookingConflictServer(rows, resourceId, startTime, endTime, excludeBookingId) ==
    \E id \in DOMAIN rows :
        /\ rows[id].resourceId = resourceId
        /\ OverlapCasesServer(rows[id], startTime, endTime)
        /\ (Truthy(excludeBookingId) => id = excludeBookingId)

\* storage.checkBookingConflict as the routes see it.
StorageCheckBookingConflict(rows, resourceId, startTime, endTime, excludeBookingId) ==
    IF storageModule = "server"
    THEN checkBookingConflictServer(rows, resourceId, startTime, endTime, excludeBookingId)
    ELSE checkBookingConflict(rows, resourceId, startTime, endTime, excludeBookingId)

\* ------------------------------------------------------ storage: bookings
\* The foreign key bookings.resource_id -> resources.id (shared/schema.ts).
ForeignKeyHolds(resourceId) == resourceId \in DOMAIN resources

\* getBooking: the row with this id, if any.
HasBooking(id) == id \in DOMAIN bookings

\* createBooking: insert(...).values(booking), the id taken from the serial.
Inserted(rows, id, row) == [i \in DOMAIN rows \cup {id} |-> IF i = id THEN row ELSE rows[i]]

\* updateBooking: update(bookings).set(booking).where(eq(bookings.id, id)).
SetFields(row, patch) == [f \in DOMAIN row |-> IF f \in DOMAIN patch THEN patch[f] ELSE row[f]]

Updated(rows, id, patch) == [i \in DOMAIN rows |-> IF i = id THEN SetFields(rows[i], patch) ELSE rows[i]]

\* Mutant of Deleted: the row is kept (a delete that only answers).
DeletedNothing(rows, id) == rows

\* Mutant of Deleted: the where clause is missing, every row is deleted.
DeletedNoWhere(rows, id) == [i \in {} |-> rows[i]]

\* deleteBooking: delete(bookings).where(eq(bookings.id, id)).
Deleted(rows, id) == [i \in DOMAIN rows \ {id} |-> rows[i]]

\* ------------------------------------------------------------- responses
Response(op, status, given) == [op |-> op, status |-> status, given |-> given]

\* Mutant of InvalidInterval: "<" for "<=", so a zero-length interval passes.
InvalidIntervalStrict(startTime, endTime) == endTime < startTime

\* The routes' test "endTime <= startTime".
InvalidInterval(startTime, endTime) == endTime <= startTime

\* Mutant of TouchesSlot: the conflict and interval checks run for every body.
TouchesSlotAlways(patch) == TRUE

\* The routes' test on an update body: any of resourceId, startTime, endTime
\* supplied (a Date is always truthy, a resourceId of 0 is not).
TouchesSlot(patch) ==
    \/ ("resourceId" \in DOMAIN patch /\ Truthy(patch.resourceId))
    \/ "startTime" \in DOMAIN patch
    \/ "endTime" \in DOMAIN patch

\* validatedData.x || existingBooking.bookings.x
Merged(patch, existing, f) ==
    IF f \in DOMAIN patch /\ (f = "resourceId" => Truthy(patch[f])) THEN patch[f] ELSE existing[f]

\* ------------------------------------ POST /api/bookings, handled whole
\* Mutant of CreateStatus: the database's constraint error is answered 409 as
\* if it were a conflict.
CreateStatusConstraint409(rows, resourceId, startTime, endTime) ==
    IF StorageCheckBookingConflict(rows, resourceId, startTime, endTime, 0) THEN 409
    ELSE IF InvalidInterval(startTime, endTime) THEN 400
    ELSE IF ~ForeignKeyHolds(resourceId) THEN 409
    ELSE 201

CreateStatus(rows, resourceId, startTime, endTime) ==
    IF StorageCheckBookingConflict(rows, resourceId, startTime, endTime, 0) THEN 409
    ELSE IF InvalidInterval(startTime, endTime) THEN 400
    ELSE IF ~ForeignKeyHolds(resourceId) THEN 500
    ELSE 201

\* Mutant of CreateBooking: createBooking is awaited before the end-time test,
\* so a request answered 400 has already been stored.
CreateBookingInsertFirst(resourceId, startTime, endTime) ==
    /\ served < MaxRequests
    /\ served' = served + 1
    /\ LET status == CreateStatus(bookings, resourceId, startTime, endTime) IN
        /\ last' = Response("create", status, Fields)
        /\ IF status \in {201, 400}
           THEN /\ bookings' = Inserted(bookings, nextBookingId,
                                        Row(resourceId, startTime, endTime))
                /\ nextBookingId' = nextBookingId + 1
           ELSE UNCHANGED <<bookings, nextBookingId>>
    /\ UNCHANGED <<clientVars, entryVars, storageModule, resources, nextResourceId, call, reqs>>

CreateBooking(resourceId, startTime, endTime) ==
    /\ served < MaxRequests
    /\ served' = served + 1
    /\ LET status == CreateStatus(bookings, resourceId, startTime, endTime) IN
        /\ last' = Response("create", status, Fields)
        /\ IF status = 201
           THEN /\ bookings' = Inserted(bookings, nextBookingId,
                                        Row(resourceId, startTime, endTime))
                /\ nextBookingId' = nextBookingId + 1
           ELSE UNCHANGED <<bookings, nextBookingId>>
    /\ UNCHANGED <<clientVars, entryVars, storageModule, resources, nextResourceId, call, reqs>>

\* ------------------------------------ PUT /api/bookings/:id, handled whole
\* Mutant of UpdateStatus: the test of updateBooking's result is missing, so
\* a body without time/resource fields is answered 200 for any id.
UpdateStatusResultUnchecked(rows, id, patch) ==
    IF TouchesSlot(patch) /\ ~(id \in DOMAIN rows) THEN 404
    ELSE IF TouchesSlot(patch)
            /\ StorageCheckBookingConflict(rows,
                   Merged(patch, rows[id], "resourceId"),
                   Merged(patch, rows[id], "startTime"),
                   Merged(patch, rows[id], "endTime"), id) THEN 409
    ELSE IF TouchesSlot(patch)
            /\ InvalidInterval(Merged(patch, rows[id], "startTime"),
                               Merged(patch, rows[id], "endTime")) THEN 400
    ELSE IF ~(id \in DOMAIN rows) THEN 200
    ELSE IF ~ForeignKeyHolds(SetFields(rows[id], patch).resourceId) THEN 500
    ELSE 200

UpdateStatus(rows, id, patch) ==
    IF TouchesSlot(patch) /\ ~(id \in DOMAIN rows) THEN 404
    ELSE IF TouchesSlot(patch)
            /\ StorageCheckBookingConflict(rows,
                   Merged(patch, rows[id], "resourceId"),
                   Merged(patch, rows[id], "startTime"),
                   Merged(patch, rows[id], "endTime"), id) THEN 409
    ELSE IF TouchesSlot(patch)
            /\ InvalidInterval(Merged(patch, rows[id], "startTime"),
                               Merged(patch, rows[id], "endTime")) THEN 400
    ELSE IF ~(id \in DOMAIN rows) THEN 404
    ELSE IF ~ForeignKeyHolds(SetFields(rows[id], patch).resourceId) THEN 500
    ELSE 200

UpdateBooking(id, patch) ==
    /\ served < MaxRequests
    /\ served' = served + 1
    /\ LET status == UpdateStatus(bookings, id, patch) IN
        /\ last' = Response("update", status, DOMAIN patch)
        /\ bookings' = IF status = 200 THEN Updated(bookings, id, patch) ELSE bookings
    /\ UNCHANGED <<clientVars, entryVars, storageModule, resources, nextResourceId, nextBookingId, call, reqs>>

\* --------------------------------- DELETE /api/bookings/:id, handled whole
DeleteBooking(id) ==
    /\ served < MaxRequests
    /\ served' = served + 1
    /\ last' = Response("delete", IF HasBooking(id) THEN 204 ELSE 404, {})
    /\ bookings' = IF HasBooking(id) THEN Deleted(bookings, id) ELSE bookings
    /\ UNCHANGED <<clientVars, entryVars, storageModule, resources, nextResourceId, nextBookingId, call, reqs>>

\* ------------------------------------------------------- request bodies
\* Every partial body over the three fields.
Patches ==
    UNION {[F -> RequestResourceIds \cup Times] : F \in SUBSET Fields}

UpdateBodies ==
    {p \in Patches :
        /\ ("resourceId" \in DOMAIN p => p.resourceId \in RequestResourceIds)
        /\ ("startTime" \in DOMAIN p => p.startTime \in Times)
        /\ ("endTime" \in DOMAIN p => p.endTime \in Times)}

\* The update bodies that supply exactly the fields F.
BodiesOver(F) ==
    {p \in [F -> RequestResourceIds \cup Times] :
        "resourceId" \in F => p.resourceId \in RequestResourceIds}

\* ------------------------------------------- requests handled one at a time
NoCall == [made |-> FALSE]

NoRows == [i \in {} |-> Row(0, 0, 0)]

Idle == [pc |-> "idle"]

\* Invocations of the exported handler that may be in progress together.
Invocations == {"i1", "i2", "i3"}

\* The module was just loaded: let initialized = false; no invocation yet.
EntryInit ==
    /\ initialized = FALSE
    /\ registerRoutesCalls = 0
    /\ invocations = [i \in Invocations |-> [pc |-> "idle"]]

\* No page has been rendered.
NoDash == [rendered |-> FALSE]

\* No CreateBookingModal is mounted (the page shown does not render one).
NoModal == [mounted |-> FALSE]

\* A CreateBookingModal just mounted: useState<string | null>(null).
FreshModal == [mounted |-> TRUE, conflictError |-> "null"]

\* The app just loaded at "/": the dashboard is shown, the modal state is false.
UiInit ==
    /\ route = "/"
    /\ createBookingModalOpen = FALSE
    /\ modal = NoModal
    /\ pending = {}
    /\ sent = 0
    /\ answered = {}

ClientInit ==
    /\ now = 0
    /\ dash = NoDash
    /\ UiInit

Init ==
    /\ storageModule \in StorageModules
    /\ resources = [r \in StoredResourceIds |-> [isAvailable |-> TRUE]]
    /\ nextResourceId = Cardinality(StoredResourceIds) + 1
    /\ bookings = NoRows
    /\ nextBookingId = 1
    /\ last = Response("none", 0, {})
    /\ served = 0
    /\ call = NoCall
    /\ reqs = [h \in Handlers |-> Idle]
    /\ ClientInit
    /\ EntryInit

\* Ids 1..nextBookingId: every id the serial has handed out, and one it has not.
Next ==
    \/ \E r \in RequestResourceIds, s \in Times, e \in Times : CreateBooking(r, s, e)
    \/ \E id \in 1..nextBookingId, p \in UpdateBodies : UpdateBooking(id, p)
    \/ \E id \in 1..nextBookingId : DeleteBooking(id)

Spec == Init /\ [][Next]_vars

\* ------------------------------------- checkBookingConflict called directly
\* Mutant of CheckBookingConflictCall: the call deletes the rows of the resource.
CheckBookingConflictCallDeleting(resourceId, startTime, endTime, excludeBookingId) ==
    /\ ~call.made
    /\ call' = [made |-> TRUE, resourceId |-> resourceId, startTime |-> startTime,
                endTime |-> endTime, excludeBookingId |-> excludeBookingId,
                server |-> checkBookingConflictServer(bookings, resourceId, startTime,
                                                      endTime, excludeBookingId),
                unnamed |-> checkBookingConflict(bookings, resourceId, startTime,
                                                 endTime, excludeBookingId)]
    /\ bookings' = [i \in {j \in DOMAIN bookings : bookings[j].resourceId # resourceId}
                       |-> bookings[i]]
    /\ UNCHANGED <<clientVars, entryVars, storageModule, resources, nextResourceId, nextBookingId, last, served, reqs>>

\* One call of the storage method on the stored rows; both modules' versions
\* answer the same arguments.  The method runs one select and writes nothing.
CheckBookingConflictCall(resourceId, startTime, endTime, excludeBookingId) ==
    /\ ~call.made
    /\ call' = [made |-> TRUE, resourceId |-> resourceId, startTime |-> startTime,
                endTime |-> endTime, excludeBookingId |-> excludeBookingId,
                server |-> checkBookingConflictServer(bookings, resourceId, startTime,
                                                      endTime, excludeBookingId),
                unnamed |-> checkBookingConflict(bookings, resourceId, startTime,
                                                 endTime, excludeBookingId)]
    /\ UNCHANGED <<clientVars, entryVars, storageModule, resources, nextResourceId, bookings, nextBookingId, last, served, reqs>>

\* Every bookings table of at most MaxRows valid rows.
Tables == UNION {[D -> ValidRows] : D \in SUBSET RowIds}

InitChecker ==
    /\ storageModule = "unnamed"
    /\ resources = [r \in StoredResourceIds |-> [isAvailable |-> TRUE]]
    /\ nextResourceId = Cardinality(StoredResourceIds) + 1
    /\ bookings \in Tables
    /\ nextBookingId = MaxRows + 1
    /\ last = Response("none", 0, {})
    /\ served = 0
    /\ call = NoCall
    /\ reqs = [h \in Handlers |-> Idle]
    /\ ClientInit
    /\ EntryInit

\* excludeBookingId 0 is a call without the fourth argument.
NextChecker ==
    \E r \in StoredResourceIds, s \in Times, e \in Times, x \in {0} \cup RowIds :
        CheckBookingConflictCall(r, s, e, x)

SpecChecker == InitChecker /\ [][NextChecker]_vars

\* ------------------------------- POST /api/bookings, handlers interleaving
\* The handler awaits storage.checkBookingConflict, then storage.createBooking;
\* other handlers run between the two.
ReceiveCreate(h, resourceId, startTime, endTime) ==
    /\ reqs[h].pc = "idle"
    /\ reqs' = [reqs EXCEPT ![h] = [pc |-> "check", resourceId |-> resourceId,
                                    startTime |-> startTime, endTime |-> endTime,
                                    status |-> 0]]
    /\ UNCHANGED <<clientVars, entryVars, storageModule, resources, nextResourceId, bookings, nextBookingId, last, served, call>>

CreateCheck(h) ==
    /\ reqs[h].pc = "check"
    /\ LET q == reqs[h] IN
        reqs' = [reqs EXCEPT ![h] =
            IF StorageCheckBookingConflict(bookings, q.resourceId, q.startTime, q.endTime, 0)
            THEN [q EXCEPT !.pc = "done", !.status = 409]
            ELSE IF InvalidInterval(q.startTime, q.endTime)
            THEN [q EXCEPT !.pc = "done", !.status = 400]
            ELSE [q EXCEPT !.pc = "insert"]]
    /\ UNCHANGED <<clientVars, entryVars, storageModule, resources, nextResourceId, bookings, nextBookingId, last, served, call>>

CreateInsert(h) ==
    /\ reqs[h].pc = "insert"
    /\ LET q == reqs[h] IN
        IF ForeignKeyHolds(q.resourceId)
        THEN /\ bookings' = Inserted(bookings, nextBookingId,
                                     Row(q.resourceId, q.startTime, q.endTime))
             /\ nextBookingId' = nextBookingId + 1
             /\ reqs' = [reqs EXCEPT ![h] = [q EXCEPT !.pc = "done", !.status = 201]]
        ELSE /\ reqs' = [reqs EXCEPT ![h] = [q EXCEPT !.pc = "done", !.status = 500]]
             /\ UNCHANGED <<bookings, nextBookingId>>
    /\ UNCHANGED <<clientVars, entryVars, storageModule, resources, nextResourceId, last, served, call>>

NextConc ==
    \/ \E h \in Handlers, r \in RequestResourceIds, s \in Times, e \in Times :
           ReceiveCreate(h, r, s, e)
    \/ \E h \in Handlers : CreateCheck(h)
    \/ \E h \in Handlers : CreateInsert(h)

SpecConc == Init /\ [][NextConc]_vars

\* ------------------- PUT /api/bookings/:id interleaving with DELETE requests
\* The PUT handler awaits storage.getBooking, storage.checkBookingConflict and
\* storage.updateBooking; DELETE requests are handled between the awaits.
\* Bodies that supply at most one of the three fields.
RaceBodies == UNION {BodiesOver(F) : F \in {G \in SUBSET Fields : Cardinality(G) <= 1}}

ReceiveUpdate(h, id, patch) ==
    /\ \A g \in Handlers : reqs[g].pc = "idle"
    /\ reqs' = [reqs EXCEPT ![h] =
                   [pc |-> IF TouchesSlot(patch) THEN "lookup" ELSE "write",
                    id |-> id, patch |-> patch, found |-> FALSE,
                    existing |-> Row(0, 0, 0), status |-> 0]]
    /\ UNCHANGED <<clientVars, entryVars, storageModule, resources, nextResourceId, bookings,
                   nextBookingId, last, served, call>>

\* const existingBooking = await storage.getBooking(id)
UpdateLookup(h) ==
    /\ reqs[h].pc = "lookup"
    /\ LET q == reqs[h] IN
        reqs' = [reqs EXCEPT ![h] =
            IF q.id \in DOMAIN bookings
            THEN [q EXCEPT !.pc = "check", !.found = TRUE, !.existing = bookings[q.id]]
            ELSE [q EXCEPT !.pc = "done", !.status = 404]]
    /\ UNCHANGED <<clientVars, entryVars, storageModule, resources, nextResourceId, bookings,
                   nextBookingId, last, served, call>>

\* await storage.checkBookingConflict(merged..., id), then the end-time test
UpdateCheck(h) ==
    /\ reqs[h].pc = "check"
    /\ LET q == reqs[h] IN
        reqs' = [reqs EXCEPT ![h] =
            IF StorageCheckBookingConflict(bookings,
                   Merged(q.patch, q.existing, "resourceId"),
                   Merged(q.patch, q.existing, "startTime"),
                   Merged(q.patch, q.existing, "endTime"), q.id)
            THEN [q EXCEPT !.pc = "done", !.status = 409]
            ELSE IF InvalidInterval(Merged(q.patch, q.existing, "startTime"),
                                    Merged(q.patch, q.existing, "endTime"))
            THEN [q EXCEPT !.pc = "done", !.status = 400]
            ELSE [q EXCEPT !.pc = "write"]]
    /\ UNCHANGED <<clientVars, entryVars, storageModule, resources, nextResourceId, bookings,
                   nextBookingId, last, served, call>>

\* Mutant of UpdateWrite: the write is an upsert, a booking found by the
\* lookup and deleted since is stored again.
UpdateWriteUpsert(h) ==
    /\ reqs[h].pc = "write"
    /\ LET q == reqs[h] IN
        IF q.id \in DOMAIN bookings \/ q.found
        THEN /\ bookings' = Inserted(bookings, q.id,
                                SetFields(IF q.id \in DOMAIN bookings
                                          THEN bookings[q.id] ELSE q.existing, q.patch))
             /\ reqs' = [reqs EXCEPT ![h] = [q EXCEPT !.pc = "done", !.status = 200]]
        ELSE /\ reqs' = [reqs EXCEPT ![h] = [q EXCEPT !.pc = "done", !.status = 404]]
             /\ UNCHANGED bookings
    /\ UNCHANGED <<clientVars, entryVars, storageModule, resources, nextResourceId,
                   nextBookingId, last, served, call>>

\* const booking = await storage.updateBooking(id, validatedData); 404 when
\* the UPDATE ... WHERE id returned no row.
UpdateWrite(h) ==
    /\ reqs[h].pc = "write"
    /\ LET q == reqs[h] IN
        IF ~(q.id \in DOMAIN bookings)
        THEN /\ reqs' = [reqs EXCEPT ![h] = [q EXCEPT !.pc = "done", !.status = 404]]
             /\ UNCHANGED bookings
        ELSE IF ~ForeignKeyHolds(SetFields(bookings[q.id], q.patch).resourceId)
        THEN /\ reqs' = [reqs EXCEPT ![h] = [q EXCEPT !.pc = "done", !.status = 500]]
             /\ UNCHANGED bookings
        ELSE /\ bookings' = Updated(bookings, q.id, q.patch)
             /\ reqs' = [reqs EXCEPT ![h] = [q EXCEPT !.pc = "done", !.status = 200]]
    /\ UNCHANGED <<clientVars, entryVars, storageModule, resources, nextResourceId,
                   nextBookingId, last, served, call>>

\* The updated booking and at most one other are stored, each over one unit
\* of time.
RaceTables ==
    {t \in Tables :
        /\ Cardinality(DOMAIN t) <= 2
        /\ \A id \in DOMAIN t : t[id].endTime = t[id].startTime + 1}

InitRace ==
    /\ storageModule \in StorageModules
    /\ resources = [r \in StoredResourceIds |-> [isAvailable |-> TRUE]]
    /\ nextResourceId = Cardinality(StoredResourceIds) + 1
    /\ bookings \in RaceTables
    /\ nextBookingId = MaxRows + 1
    /\ last = Response("none", 0, {})
    /\ served = 0
    /\ call = NoCall
    /\ reqs = [h \in Handlers |-> Idle]
    /\ ClientInit
    /\ EntryInit

NextRace ==
    \/ \E h \in Handlers, id \in RowIds, p \in RaceBodies : ReceiveUpdate(h, id, p)
    \/ \E h \in Handlers : UpdateLookup(h)
    \/ \E h \in Handlers : UpdateCheck(h)
    \/ \E h \in Handlers : UpdateWrite(h)
    \/ \E id \in RowIds : DeleteBooking(id)

SpecRace == InitRace /\ [][NextRace]_vars

\* ===================================================================
\* Resources: POST, PUT and DELETE /api/resources, with the bookings routes
\* ===================================================================
\* A resources row keeps the column isAvailable.
ResourceRow(isAvailable) == [isAvailable |-> isAvailable]

\* Partial resource bodies: isAvailable supplied or not (the empty record is
\* a body with other columns only).
ResourceBodies == UNION {[F -> BOOLEAN] : F \in SUBSET {"isAvailable"}}

\* Mutant of ReferencedByBooking: the bookings table has no foreign key.
ReferencedByNone(rows, resourceId) == FALSE

\* bookings.resource_id references resources.id: a resources row that a
\* bookings row names cannot be deleted.
ReferencedByBooking(rows, resourceId) ==
    \E id \in DOMAIN rows : rows[id].resourceId = resourceId

\* POST /api/resources
CreateResource(isAvailable) ==
    /\ served < MaxRequests
    /\ served' = served + 1
    /\ resources' = Inserted(resources, nextResourceId, ResourceRow(isAvailable))
    /\ nextResourceId' = nextResourceId + 1
    /\ last' = Response("createResource", 201, {"isAvailable"})
    /\ UNCHANGED <<clientVars, entryVars, storageModule, bookings, nextBookingId, call, reqs>>

\* PUT /api/resources/:id
UpdateResource(id, patch) ==
    /\ served < MaxRequests
    /\ served' = served + 1
    /\ last' = Response("updateResource",
                        IF id \in DOMAIN resources THEN 200 ELSE 404, DOMAIN patch)
    /\ resources' = IF id \in DOMAIN resources
                    THEN Updated(resources, id, patch) ELSE resources
    /\ UNCHANGED <<clientVars, entryVars, storageModule, nextResourceId, bookings, nextBookingId, call, reqs>>

\* DELETE /api/resources/:id
DeleteResourceStatus(id) ==
    IF ReferencedByBooking(bookings, id) THEN 500
    ELSE IF ~(id \in DOMAIN resources) THEN 404
    ELSE 204

DeleteResource(id) ==
    /\ served < MaxRequests
    /\ served' = served + 1
    /\ LET status == DeleteResourceStatus(id) IN
        /\ last' = Response("deleteResource", status, {})
        /\ resources' = IF status = 204 THEN Deleted(resources, id) ELSE resources
    /\ UNCHANGED <<clientVars, entryVars, storageModule, nextResourceId, bookings, nextBookingId, call, reqs>>

NextRes ==
    \/ \E a \in BOOLEAN : CreateResource(a)
    \/ \E id \in 1..nextResourceId, p \in ResourceBodies : UpdateResource(id, p)
    \/ \E id \in 1..nextResourceId : DeleteResource(id)
    \/ \E r \in 1..nextResourceId, s \in Times, e \in Times : CreateBooking(r, s, e)
    \/ \E id \in 1..nextBookingId, r \in 1..nextResourceId :
           UpdateBooking(id, [f \in {"resourceId"} |-> r])
    \/ \E id \in 1..nextBookingId : DeleteBooking(id)

SpecRes == Init /\ [][NextRes]_vars

\* ===================================================================
\* Client pages: dashboard.tsx and bookings.tsx
\* ===================================================================
\* slice(0, 3) of the dashboard's two lists.
SliceLimit == 3

\* Ids of the rows the page is given: one more than a slice holds.
DashIds == 1..(SliceLimit + 1)

\* Instants of the bookings the page is given.
DashTimes == 0..(MaxTime - 1)

\* dashboard.tsx activeBookings filter: start <= now && end > now.
IsActive(row, t) == row.startTime <= t /\ row.endTime > t

\* bookings.tsx getBookingStatus.
getBookingStatus(row, t) ==
    IF row.startTime <= t /\ row.endTime > t THEN "active"
    ELSE IF row.startTime > t THEN "upcoming"
    ELSE "completed"

\* list.slice(0, 3) of a list whose order the query leaves open (getBookings
\* and getResources have no ORDER BY): any SliceLimit of its elements, or all
\* of them when there are fewer.
Slices(S) ==
    {T \in SUBSET S : Cardinality(T) = IF Cardinality(S) < SliceLimit
                                        THEN Cardinality(S) ELSE SliceLimit}

\* bookings.filter(active now), before the slice.
ActiveNow(rows, t) == {id \in DOMAIN rows : IsActive(rows[id], t)}

\* new Set(activeBookings.map(b => b.bookings?.resourceId).filter(Boolean))
bookedResourceIds(rows, activeBookings) ==
    {rows[id].resourceId : id \in {i \in activeBookings : Truthy(rows[i].resourceId)}}

\* resources.filter(r => r.isAvailable && !bookedResourceIds.has(r.id)),
\* before the slice.
AvailableUnbooked(rows, activeBookings) ==
    {r \in DOMAIN resources :
        resources[r].isAvailable /\ ~(r \in bookedResourceIds(rows, activeBookings))}

\* One render of the Dashboard component with the fetched lists.
RenderDashboard(activeBookings, availableResources) ==
    /\ ~dash.rendered
    /\ activeBookings \in Slices(ActiveNow(bookings, now))
    /\ availableResources \in Slices(AvailableUnbooked(bookings, activeBookings))
    /\ dash' = [rendered |-> TRUE, activeBookings |-> activeBookings,
                availableResources |-> availableResources]
    /\ UNCHANGED <<now, route, createBookingModalOpen, modal, pending, sent, answered, serverVars>>

DashRows ==
    {x \in [resourceId : DashIds, startTime : DashTimes, endTime : DashTimes] :
        x.endTime > x.startTime}

\* Tables in which no two bookings of a resource share an instant.
DashTables ==
    {t \in UNION {[D -> DashRows] : D \in SUBSET DashIds} :
        \A i \in DOMAIN t, j \in DOMAIN t :
            (i # j /\ t[i].resourceId = t[j].resourceId) =>
                (t[i].endTime <= t[j].startTime \/ t[j].endTime <= t[i].startTime)}

InitDash ==
    /\ storageModule = "unnamed"
    /\ resources \in [DashIds -> {ResourceRow(TRUE), ResourceRow(FALSE)}]
    /\ nextResourceId = SliceLimit + 2
    /\ bookings \in DashTables
    /\ nextBookingId = SliceLimit + 2
    /\ last = Response("none", 0, {})
    /\ served = 0
    /\ call = NoCall
    /\ reqs = [h \in Handlers |-> Idle]
    /\ now \in DashTimes
    /\ dash = NoDash
    /\ UiInit
    /\ EntryInit

NextDash ==
    \E a \in Slices(ActiveNow(bookings, now)) :
        \E r \in Slices(AvailableUnbooked(bookings, a)) : RenderDashboard(a, r)

SpecDash == InitDash /\ [][NextDash]_vars

\* ===================================================================
\* Client: App.tsx (Router) and create-booking-modal.tsx
\* ===================================================================
Routes == {"/", "/resources", "/bookings"}

\* conflictError: null, or one of the two messages of the modal.
EndTimeError == "End time must be after start time."

ConflictMessage == "This resource is already booked during the requested time."

\* What the create request is answered: created, conflict, or another failure.
Outcomes == {201, 409, 500}

\* Only the /bookings route renders a CreateBookingModal (bookings.tsx:374).
RendersModal(r) == r = "/bookings"

\* The requests of an unmounted instance: their callbacks still run, their
\* setConflictError reaches no mounted component.
Stale(p) == {[q EXCEPT !.live = FALSE] : q \in p}

\* Mutant of SetCreateBookingModalOpen: the Bookings page and its modal keep
\* their instance when Router renders again.
SetCreateBookingModalOpenKeepingInstance(open, m, p) ==
    /\ createBookingModalOpen' = open
    /\ modal' = m
    /\ pending' = p

\* setCreateBookingModalOpen(open), called when the modal instance is m and
\* the pending requests are p.  A change of the state renders Router again;
\* the /bookings route is given a new inline component function on every
\* render of Router (App.tsx:26-31), so the Bookings page and the modal in it
\* are unmounted and mounted anew, with conflictError null.
SetCreateBookingModalOpen(open, m, p) ==
    /\ createBookingModalOpen' = open
    /\ IF open # createBookingModalOpen /\ RendersModal(route)
       THEN modal' = FreshModal /\ pending' = Stale(p)
       ELSE modal' = m /\ pending' = p

\* The dialog is displayed: an instance is mounted and its open prop is true.
Displayed == modal.mounted /\ createBookingModalOpen

\* Header "New Booking" (any route), dashboard "Quick Book", and the bookings
\* page's own button: all call setCreateBookingModalOpen(true).
OnCreateBooking ==
    /\ SetCreateBookingModalOpen(TRUE, modal, pending)
    /\ UNCHANGED <<route, sent, answered, now, dash, serverVars>>

\* A click on a link of the header.
Navigate(r) ==
    /\ r # route
    /\ route' = r
    /\ modal' = IF RendersModal(r) THEN FreshModal ELSE NoModal
    /\ pending' = Stale(pending)
    /\ UNCHANGED <<createBookingModalOpen, sent, answered, now, dash, serverVars>>

\* Mutant of handleSubmit: the return after the end-time error is missing.
handleSubmitNoReturn(startTime, endTime) ==
    /\ Displayed
    /\ \A q \in pending : ~q.live
    /\ sent < MaxRequests
    /\ modal' = [modal EXCEPT !.conflictError =
                     IF endTime <= startTime THEN EndTimeError ELSE "null"]
    /\ pending' = pending \cup {[n |-> sent + 1, live |-> TRUE,
                                  startTime |-> startTime, endTime |-> endTime]}
    /\ sent' = sent + 1
    /\ UNCHANGED <<route, createBookingModalOpen, answered, now, dash, serverVars>>

\* handleSubmit of the displayed modal; the submit button is disabled while
\* the instance's mutation is pending.
handleSubmit(startTime, endTime) ==
    /\ Displayed
    /\ \A q \in pending : ~q.live
    /\ sent < MaxRequests
    /\ IF endTime <= startTime
       THEN /\ modal' = [modal EXCEPT !.conflictError = EndTimeError]
            /\ UNCHANGED <<pending, sent>>
       ELSE /\ modal' = [modal EXCEPT !.conflictError = "null"]
            /\ pending' = pending \cup {[n |-> sent + 1, live |-> TRUE,
                                          startTime |-> startTime, endTime |-> endTime]}
            /\ sent' = sent + 1
    /\ UNCHANGED <<route, createBookingModalOpen, answered, now, dash, serverVars>>

\* handleClose: onOpenChange(false); form.reset(); setConflictError(null).
handleClose ==
    /\ Displayed
    /\ SetCreateBookingModalOpen(FALSE, [modal EXCEPT !.conflictError = "null"], pending)
    /\ UNCHANGED <<route, sent, answered, now, dash, serverVars>>

\* The answer to a pending request arrives: onSuccess or onError of the
\* instance that sent it.
Answered(q, outcome) ==
    /\ q \in pending
    /\ IF outcome = 201
       THEN SetCreateBookingModalOpen(FALSE,
                IF q.live THEN [modal EXCEPT !.conflictError = "null"] ELSE modal,
                pending \ {q})
       ELSE /\ modal' = IF q.live /\ outcome = 409
                        THEN [modal EXCEPT !.conflictError = ConflictMessage]
                        ELSE modal
            /\ pending' = pending \ {q}
            /\ UNCHANGED createBookingModalOpen
    /\ answered' = answered \cup {[n |-> q.n, live |-> q.live, outcome |-> outcome]}
    /\ UNCHANGED <<route, sent, now, dash, serverVars>>

NextUi ==
    \/ OnCreateBooking
    \/ \E r \in Routes : Navigate(r)
    \/ \E s \in Times, e \in Times : handleSubmit(s, e)
    \/ handleClose
    \/ \E q \in pending, o \in Outcomes : Answered(q, o)

SpecUi == Init /\ [][NextUi]_vars

\* ===================================================================
\* Serverless entry point: api/index.ts
\* ===================================================================
\* handler(req, res) is called and runs to its first await.  With initialized
\* true it calls app(req, res) at once; otherwise setup() passes its own test
\* of initialized, calls registerRoutes(app) and awaits the promise.
Invoke(i) ==
    /\ invocations[i].pc = "idle"
    /\ IF initialized
       THEN /\ invocations' = [invocations EXCEPT ![i] =
                                  [pc |-> "done", initializedAtAppCall |-> initialized]]
            /\ UNCHANGED registerRoutesCalls
       ELSE /\ invocations' = [invocations EXCEPT ![i] = [pc |-> "awaitRegisterRoutes"]]
            /\ registerRoutesCalls' = registerRoutesCalls + 1
    /\ UNCHANGED <<initialized, clientVars, storageModule, resources, nextResourceId,
                   bookings, nextBookingId, last, served, call, reqs>>

\* setup() resumes after await registerRoutes(app): initialized = true.
SetupResume(i) ==
    /\ invocations[i].pc = "awaitRegisterRoutes"
    /\ initialized' = TRUE
    /\ invocations' = [invocations EXCEPT ![i] = [pc |-> "awaitSetup"]]
    /\ UNCHANGED <<registerRoutesCalls, clientVars, storageModule, resources,
                   nextResourceId, bookings, nextBookingId, last, served, call, reqs>>

\* handler resumes after await setup(): app(req, res).
CallApp(i) ==
    /\ invocations[i].pc = "awaitSetup"
    /\ invocations' = [invocations EXCEPT ![i] =
                          [pc |-> "done", initializedAtAppCall |-> initialized]]
    /\ UNCHANGED <<initialized, registerRoutesCalls, clientVars, storageModule, resources,
                   nextResourceId, bookings, nextBookingId, last, served, call, reqs>>

NextEntry ==
    \/ \E i \in Invocations : Invoke(i)
    \/ \E i \in Invocations : SetupResume(i)
    \/ \E i \in Invocations : CallApp(i)

SpecEntry == Init /\ [][NextEntry]_vars

\* ===================================================================
\* Properties
\* ===================================================================
\* Two intervals share an instant (half-open reading of [start, end)).
ShareInstant(s1, e1, s2, e2) == s1 < e2 /\ s2 < e1

\* The argument excludes row id from the comparison.
Excluded(id, excludeBookingId) == Truthy(excludeBookingId) /\ id = excludeBookingId

\* The rows of one resource.
RowsOf(rows, resourceId) ==
    [i \in {j \in DOMAIN rows : rows[j].resourceId = resourceId} |-> rows[i]]

\* C1: with requests handled one at a time, no two distinct stored bookings of
\* the same resource share an instant.
C1_NoTwoBookingsShareInstant ==
    \A a \in DOMAIN bookings : \A b \in DOMAIN bookings :
        (a # b /\ bookings[a].resourceId = bookings[b].resourceId)
            => ~ShareInstant(bookings[a].startTime, bookings[a].endTime,
                             bookings[b].startTime, bookings[b].endTime)

\* C2: of two create requests handled concurrently for the same resource with
\* intervals that share an instant, at most one ends with its booking stored.
C2_AtMostOneConcurrentCreateStored ==
    \A g \in Handlers : \A h \in Handlers :
        (/\ g # h
         /\ reqs[g].pc = "done" /\ reqs[h].pc = "done"
         /\ reqs[g].status = 201 /\ reqs[h].status = 201
         /\ reqs[g].resourceId = reqs[h].resourceId
         /\ ShareInstant(reqs[g].startTime, reqs[g].endTime,
                         reqs[h].startTime, reqs[h].endTime))
            => FALSE

\* C3: for a candidate with start < end, a stored, non-excluded booking of the
\* same resource that shares an instant with it makes checkBookingConflict
\* (src/unnamed/part_001) return true.
C3_SharedInstantIsReported ==
    (call.made /\ call.startTime < call.endTime) =>
        \A id \in DOMAIN bookings :
            (/\ bookings[id].resourceId = call.resourceId
             /\ ~Excluded(id, call.excludeBookingId)
             /\ ShareInstant(call.startTime, call.endTime,
                             bookings[id].startTime, bookings[id].endTime))
                => call.unnamed

\* C3 witness: the candidate strictly encloses a stored booking of its resource
\* and the call, made with another booking excluded, answered true.
C3_Witness ==
    /\ call.made /\ call.unnamed /\ Truthy(call.excludeBookingId)
    /\ \E id \in DOMAIN bookings :
           /\ bookings[id].resourceId = call.resourceId
           /\ id # call.excludeBookingId
           /\ call.startTime < bookings[id].startTime
           /\ bookings[id].endTime < call.endTime

\* C4: checkBookingConflict returns true only if some stored, non-excluded
\* booking of the resource shares an instant with the candidate (so a candidate
\* that abuts the only booking is no conflict).
C4_ConflictOnlyOnSharedInstant ==
    (call.made /\ call.unnamed /\ call.startTime < call.endTime) =>
        \E id \in DOMAIN bookings :
            /\ bookings[id].resourceId = call.resourceId
            /\ ~Excluded(id, call.excludeBookingId)
            /\ ShareInstant(call.startTime, call.endTime,
                            bookings[id].startTime, bookings[id].endTime)

\* C5: a create or update whose candidate interval has end <= start is answered
\* 400 ("End time must be after start time"), never 409, whatever is stored.
C5_InvalidIntervalAnswered400 ==
    [][/\ \A r \in RequestResourceIds, s \in Times, e \in Times :
            (e <= s /\ CreateBooking(r, s, e)) => last'.status = 400
       /\ \A id \in DOMAIN bookings, p \in UpdateBodies :
            (/\ TouchesSlot(p)
             /\ Merged(p, bookings[id], "endTime") <= Merged(p, bookings[id], "startTime")
             /\ UpdateBooking(id, p)) => last'.status = 400]_vars

\* C6: every stored booking has endTime > startTime, also after an update that
\* supplies only one of the two bounds.
C6_StoredIntervalsValid ==
    \A id \in DOMAIN bookings : bookings[id].endTime > bookings[id].startTime

\* C6 witness: an update that supplied only startTime was accepted and moved
\* the start of a stored booking.
C6_Witness ==
    /\ last.op = "update" /\ last.status = 200 /\ last.given = {"startTime"}
    /\ \E id \in DOMAIN bookings : bookings[id].startTime > 0

\* C7: checkBookingConflict with excludeBookingId = x returns what the call
\* without exclusion returns on the table with row x removed.
C7_ExclusionIsRemoval ==
    (call.made /\ Truthy(call.excludeBookingId) /\ call.startTime < call.endTime) =>
        /\ call.server = checkBookingConflictServer(
               Deleted(bookings, call.excludeBookingId),
               call.resourceId, call.startTime, call.endTime, 0)
        /\ call.unnamed = checkBookingConflict(
               Deleted(bookings, call.excludeBookingId),
               call.resourceId, call.startTime, call.endTime, 0)

\* C8: the result of checkBookingConflict is decided by the rows of the given
\* resource alone: the rows of other resources never change it.
C8_OnlySameResourceRows ==
    call.made =>
        /\ call.unnamed = checkBookingConflict(RowsOf(bookings, call.resourceId),
               call.resourceId, call.startTime, call.endTime, call.excludeBookingId)
        /\ call.server = checkBookingConflictServer(RowsOf(bookings, call.resourceId),
               call.resourceId, call.startTime, call.endTime, call.excludeBookingId)

\* C8 witness: the candidate has the times of a booking stored for another
\* resource, its own resource has no booking, and the answer is no conflict.
C8_Witness ==
    /\ call.made /\ ~call.unnamed /\ ~call.server
    /\ call.startTime < call.endTime
    /\ \A id \in DOMAIN bookings : bookings[id].resourceId # call.resourceId
    /\ \E id \in DOMAIN bookings :
           /\ bookings[id].startTime = call.startTime
           /\ bookings[id].endTime = call.endTime

\* C9: a call of checkBookingConflict leaves the stored resources and bookings
\* as they were.
C9_CheckChangesNothing ==
    [][call' # call =>
          (bookings' = bookings /\ resources' = resources
           /\ nextBookingId' = nextBookingId)]_vars

\* C9 witness: a call that found a conflict was made on a table with two rows.
C9_Witness ==
    /\ call.made /\ call.unnamed
    /\ Cardinality(DOMAIN bookings) = 2

\* C11: for a resource with no stored booking, checkBookingConflict returns
\* false for every candidate interval and every excludeBookingId.
C11_NoBookingsNoConflict ==
    (call.made /\ \A id \in DOMAIN bookings : bookings[id].resourceId # call.resourceId)
        => (~call.unnamed /\ ~call.server)

\* C11 witness: a call for a resource without bookings, with an excludeBookingId
\* that names a booking of another resource whose interval the candidate covers.
C11_Witness ==
    /\ call.made /\ ~call.unnamed /\ ~call.server
    /\ \A id \in DOMAIN bookings : bookings[id].resourceId # call.resourceId
    /\ call.excludeBookingId \in DOMAIN bookings
    /\ call.startTime <= bookings[call.excludeBookingId].startTime
    /\ bookings[call.excludeBookingId].endTime <= call.endTime

\* C12: deleting a stored booking is answered 204, removes exactly that booking
\* and leaves every other booking and every resource unchanged; deleting an id
\* that is not stored is answered 404 and changes nothing.
C12_DeleteRemovesExactlyOne ==
    [][\A id \in 1..nextBookingId :
          DeleteBooking(id) =>
             /\ resources' = resources
             /\ IF id \in DOMAIN bookings
                THEN /\ last'.status = 204
                     /\ DOMAIN bookings' = DOMAIN bookings \ {id}
                     /\ \A i \in DOMAIN bookings' : bookings'[i] = bookings[i]
                ELSE /\ last'.status = 404
                     /\ bookings' = bookings]_vars

\* C12 witness: a delete was answered 204 and another booking is still stored.
C12_Witness ==
    /\ last.op = "delete" /\ last.status = 204
    /\ DOMAIN bookings # {}

\* C13: a create or update answered 409, 400 or 404 leaves the stored bookings
\* as they were; a booking is written only when the conflict check on the
\* written slot returned false and its interval is valid.
C13_RejectedLeavesStore ==
    [][/\ (served' # served /\ last'.op \in {"create", "update"}
           /\ last'.status \in {409, 400, 404})
            => (bookings' = bookings /\ nextBookingId' = nextBookingId)
       /\ (served' # served /\ last'.op = "create" /\ bookings' # bookings)
            => /\ DOMAIN bookings' = DOMAIN bookings \cup {nextBookingId}
               /\ bookings'[nextBookingId].endTime > bookings'[nextBookingId].startTime
               /\ ~StorageCheckBookingConflict(bookings,
                      bookings'[nextBookingId].resourceId,
                      bookings'[nextBookingId].startTime,
                      bookings'[nextBookingId].endTime, 0)
       /\ (served' # served /\ last'.op = "update" /\ bookings' # bookings)
            => /\ DOMAIN bookings' = DOMAIN bookings
               /\ \A id \in DOMAIN bookings :
                     bookings'[id] # bookings[id] =>
                        /\ bookings'[id].endTime > bookings'[id].startTime
                        /\ ~StorageCheckBookingConflict(bookings,
                               bookings'[id].resourceId, bookings'[id].startTime,
                               bookings'[id].endTime, id)]_vars

\* C13 witness: an update was answered 409 with two bookings stored.
C13_Witness ==
    /\ last.op = "update" /\ last.status = 409
    /\ Cardinality(DOMAIN bookings) = 2

\* C14: 409 is answered exactly when checkBookingConflict was called and
\* returned true, 404 exactly when the addressed booking id is not stored, and
\* 400 only when the candidate's end <= start.
C14_RejectionKindsDistinct ==
    [][/\ last'.op = "create" =>
          \A r \in RequestResourceIds, s \in Times, e \in Times :
            CreateBooking(r, s, e) =>
               /\ last'.status = 409 <=> StorageCheckBookingConflict(bookings, r, s, e, 0)
               /\ last'.status = 400 => e <= s
               /\ last'.status # 404
       /\ last'.op = "update" =>
          \A id \in 1..nextBookingId, p \in BodiesOver(last'.given) :
            UpdateBooking(id, p) =>
               /\ last'.status = 404 <=> ~(id \in DOMAIN bookings)
               /\ last'.status = 409 <=>
                     /\ id \in DOMAIN bookings
                     /\ TouchesSlot(p)
                     /\ StorageCheckBookingConflict(bookings,
                            Merged(p, bookings[id], "resourceId"),
                            Merged(p, bookings[id], "startTime"),
                            Merged(p, bookings[id], "endTime"), id)
               /\ last'.status = 400 =>
                     Merged(p, bookings[id], "endTime") <= Merged(p, bookings[id], "startTime")
       /\ last'.op = "delete" =>
          \A id \in 1..nextBookingId :
            DeleteBooking(id) =>
               /\ last'.status = 404 <=> ~(id \in DOMAIN bookings)
               /\ last'.status \in {204, 404}]_vars

\* C14 witness: a create was answered 409 while a booking is stored.
C14_Witness ==
    /\ last.op = "create" /\ last.status = 409
    /\ DOMAIN bookings # {}

\* C15: a create, or an update that changes resourceId, naming a resource id
\* that is not stored, with a valid interval, is answered 404 and stores
\* nothing.
C15_MissingResourceAnswered404 ==
    [][/\ \A r \in RequestResourceIds \ DOMAIN resources, s \in Times, e \in Times :
            (last'.op = "create" /\ s < e /\ CreateBooking(r, s, e)) =>
               (last'.status = 404 /\ bookings' = bookings)
       /\ \A id \in DOMAIN bookings, p \in BodiesOver(last'.given) :
            (/\ last'.op = "update"
             /\ "resourceId" \in DOMAIN p
             /\ ~(p.resourceId \in DOMAIN resources)
             /\ Merged(p, bookings[id], "startTime") < Merged(p, bookings[id], "endTime")
             /\ UpdateBooking(id, p)) =>
               (last'.status = 404 /\ bookings' = bookings)]_vars

\* C16: every stored booking's resourceId names a stored resource, after any
\* sequence of resource and booking requests.
C16_BookingsNameStoredResources ==
    \A id \in DOMAIN bookings : bookings[id].resourceId \in DOMAIN resources

\* C16 witness: the deletion of a resource that still has a booking was
\* refused.
C16_Witness ==
    /\ last.op = "deleteResource" /\ last.status = 500
    /\ DOMAIN bookings # {}

\* C17: a create request stores a booking only for a resource whose isAvailable
\* is true when the request is handled.
C17_CreatedOnlyForAvailableResource ==
    [][(last'.op = "create" /\ nextBookingId' # nextBookingId) =>
          /\ bookings'[nextBookingId].resourceId \in DOMAIN resources
          /\ resources[bookings'[nextBookingId].resourceId].isAvailable]_vars

\* The single closed inequality s <= be /\ bs <= e.
ClosedOverlap(row, startTime, endTime) ==
    startTime <= row.endTime /\ row.startTime <= endTime

\* C18: for a candidate with s < e and a stored booking with bs < be, the
\* three-case condition of checkBookingConflict (both storage modules) is true
\* exactly when s <= be and bs <= e; so a call without exclusion answers true
\* exactly when some booking of the resource satisfies the closed inequality.
C18_ThreeCasesAreClosedOverlap ==
    (call.made /\ call.startTime < call.endTime) =>
        /\ \A id \in DOMAIN bookings :
              /\ OverlapCases(bookings[id], call.startTime, call.endTime)
                    <=> ClosedOverlap(bookings[id], call.startTime, call.endTime)
              /\ OverlapCasesServer(bookings[id], call.startTime, call.endTime)
                    <=> ClosedOverlap(bookings[id], call.startTime, call.endTime)
        /\ ~Truthy(call.excludeBookingId) =>
              /\ call.unnamed <=>
                    \E id \in DOMAIN RowsOf(bookings, call.resourceId) :
                        ClosedOverlap(bookings[id], call.startTime, call.endTime)
              /\ call.server <=>
                    \E id \in DOMAIN RowsOf(bookings, call.resourceId) :
                        ClosedOverlap(bookings[id], call.startTime, call.endTime)

\* C18 witness: the candidate starts at the end of the only booking of its
\* resource, and the call without exclusion answered true in both modules.
C18_Witness ==
    /\ call.made /\ ~Truthy(call.excludeBookingId)
    /\ call.startTime < call.endTime
    /\ call.unnamed /\ call.server
    /\ Cardinality(DOMAIN RowsOf(bookings, call.resourceId)) = 1
    /\ \A id \in DOMAIN RowsOf(bookings, call.resourceId) :
          bookings[id].endTime = call.startTime

\* C19: an update that supplies any of resourceId, startTime, endTime is
\* checked on the merged candidate with its own id excluded: when the merged
\* interval is valid and another stored booking of the merged resource shares
\* an instant with it, the update is answered 409.
C19_UpdateCheckedOnMergedCandidate ==
    [][\A id \in DOMAIN bookings, p \in BodiesOver(last'.given) :
          (/\ last'.op = "update"
           /\ TouchesSlot(p)
           /\ Merged(p, bookings[id], "startTime") < Merged(p, bookings[id], "endTime")
           /\ \E other \in DOMAIN bookings \ {id} :
                 /\ bookings[other].resourceId = Merged(p, bookings[id], "resourceId")
                 /\ ShareInstant(Merged(p, bookings[id], "startTime"),
                                 Merged(p, bookings[id], "endTime"),
                                 bookings[other].startTime, bookings[other].endTime)
           /\ UpdateBooking(id, p)) => last'.status = 409]_vars

\* C20: an update addressed to a booking id that is not stored is answered 404,
\* with time/resource fields in the body or without, creates no booking and
\* leaves the bookings as they were.
C20_UpdateOfMissingIdAnswered404 ==
    [][last'.op = "update" =>
          \A id \in (1..nextBookingId) \ DOMAIN bookings, p \in BodiesOver(last'.given) :
             UpdateBooking(id, p) =>
                /\ last'.status = 404
                /\ bookings' = bookings
                /\ nextBookingId' = nextBookingId]_vars

\* C20 witness: an update whose body had no time/resource field was answered
\* 404 while another booking is stored.
C20_Witness ==
    /\ last.op = "update" /\ last.status = 404 /\ last.given = {}
    /\ DOMAIN bookings # {}

\* C21: every resource in the dashboard's available-resources list has
\* isAvailable = true and no booking active now, however many bookings are
\* active at once.
C21_AvailableListHasNoActiveBooking ==
    dash.rendered =>
        \A r \in dash.availableResources :
            /\ resources[r].isAvailable
            /\ \A id \in DOMAIN bookings :
                  bookings[id].resourceId = r => ~IsActive(bookings[id], now)

\* C22: a submit of the modal whose end time is not after its start time sends
\* no create request and leaves the error "End time must be after start
\* time."; a submit that passes the test leaves conflictError null.
C22_InvalidSubmitSendsNothing ==
    [][(Displayed /\ answered' = answered /\ createBookingModalOpen') =>
          \A s \in Times, e \in Times :
             handleSubmit(s, e) =>
                IF e <= s
                THEN /\ pending' = pending /\ sent' = sent
                     /\ modal'.conflictError = EndTimeError
                ELSE /\ modal'.conflictError = "null"
                     /\ \E q \in pending' \ pending :
                           q.startTime = s /\ q.endTime = e]_vars

\* C22 witness: the modal shows the end-time error after an earlier request
\* of the same instance was answered, and nothing is pending.
C22_Witness ==
    /\ Displayed
    /\ modal.conflictError = EndTimeError
    /\ sent > 0
    /\ pending = {}

\* C23: an update whose body supplies none of resourceId, startTime, endTime
\* is answered 200 or 404, never 409 or 400, and leaves every stored booking's
\* resourceId, startTime and endTime as they were.
C23_BodyWithoutSlotFieldsSkipsChecks ==
    [][(last'.op = "update" /\ last'.given = {}) =>
          /\ last'.status \in {200, 404}
          /\ bookings' = bookings]_vars

\* C23 witness: such an update was answered 200 while two bookings are stored.
C23_Witness ==
    /\ last.op = "update" /\ last.status = 200 /\ last.given = {}
    /\ Cardinality(DOMAIN bookings) = 2

\* C24: the two checkBookingConflict implementations return the same boolean
\* for every table and every (resourceId, start, end) with start < end,
\* without and with an excludeBookingId.
C24_BothModulesAgree ==
    (call.made /\ call.startTime < call.endTime) => (call.server <=> call.unnamed)

\* C25: once a booking is deleted, a create request for its resource and its
\* interval is accepted (201) provided no booking still stored for that
\* resource meets the interval; and the create request that follows a delete
\* is accepted whenever no stored booking of its resource meets its interval.
C25_DeletedBookingNeverBlocks ==
    [][/\ (last'.op = "delete" /\ last'.status = 204) =>
          \A id \in DOMAIN bookings :
            DeleteBooking(id) =>
               ((\A other \in DOMAIN bookings' \ {id} :
                    ~(/\ bookings'[other].resourceId = bookings[id].resourceId
                      /\ ClosedOverlap(bookings'[other], bookings[id].startTime,
                                       bookings[id].endTime)))
                => CreateStatus(bookings', bookings[id].resourceId,
                                bookings[id].startTime, bookings[id].endTime) = 201)
       /\ (last.op = "delete" /\ last.status = 204 /\ last'.op = "create") =>
            \A r \in DOMAIN resources, s \in Times, e \in Times :
               (/\ s < e
                /\ \A other \in DOMAIN bookings :
                      ~(bookings[other].resourceId = r
                        /\ ClosedOverlap(bookings[other], s, e))
                /\ CreateBooking(r, s, e)) =>
                   (last'.status = 201 /\ bookings'[nextBookingId] = Row(r, s, e))]_vars

\* C25 witness: booking 1 was deleted and the create that followed was
\* accepted: booking 2 is the only one stored.
C25_Witness ==
    /\ last.op = "create" /\ last.status = 201
    /\ DOMAIN bookings = {2}
    /\ nextBookingId = 3

\* C26: while an update of booking x and deletes interleave, no deleted booking
\* is stored again; an update whose write finds the booking gone answers 404
\* and writes nothing.
C26_DeletedBookingStaysDeleted ==
    [][/\ DOMAIN bookings' \subseteq DOMAIN bookings
       /\ \A h \in Handlers :
            (/\ reqs[h].pc = "write" /\ reqs'[h].pc = "done"
             /\ ~(reqs[h].id \in DOMAIN bookings)) =>
                (reqs'[h].status = 404 /\ bookings' = bookings)]_vars

\* C26 witness: the update's lookup found the booking, a delete of it was
\* answered 204, and the update then answered 404.
C26_Witness ==
    /\ last.op = "delete" /\ last.status = 204
    /\ \E h \in Handlers :
          /\ reqs[h].pc = "done" /\ reqs[h].status = 404 /\ reqs[h].found
          /\ ~(reqs[h].id \in DOMAIN bookings)

\* C27: registerRoutes(app) is called at most once over any invocations of the
\* handler, and app is called for a request only when initialized is true.
C27_RegisterRoutesAtMostOnce ==
    /\ registerRoutesCalls <= 1
    /\ \A i \in Invocations :
          invocations[i].pc = "done" => invocations[i].initializedAtAppCall

\* C28: getBookingStatus gives a booking with start < end exactly one of
\* active (start <= now < end), upcoming (start > now), completed (end <= now);
\* at any instant at most one stored booking of a resource is active; and the
\* dashboard's active filter agrees with the bookings page's active status.
C28_OneStatusAndOneActivePerResource ==
    \A t \in Times :
        /\ \A id \in DOMAIN bookings :
              /\ getBookingStatus(bookings[id], t) = "active"
                    <=> (bookings[id].startTime <= t /\ t < bookings[id].endTime)
              /\ getBookingStatus(bookings[id], t) = "upcoming"
                    <=> bookings[id].startTime > t
              /\ getBookingStatus(bookings[id], t) = "completed"
                    <=> bookings[id].endTime <= t
              /\ IsActive(bookings[id], t)
                    <=> getBookingStatus(bookings[id], t) = "active"
        /\ \A i \in DOMAIN bookings, j \in DOMAIN bookings :
              (/\ i # j
               /\ bookings[i].resourceId = bookings[j].resourceId
               /\ getBookingStatus(bookings[i], t) = "active")
                  => getBookingStatus(bookings[j], t) # "active"

C30_OpenStateShowsModal ==
    createBookingModalOpen => (modal.mounted /\ Displayed)

====
